---- MODULE Spec2Model ----
(***************************************************************************)
(* Model of the Solana voting program in src/src/lib.rs: the fixed-layout  *)
(* Voter / Proposal codecs, the entrypoint process_instruction and the     *)
(* four transitions give_right_to_vote, vote, winning_proposal and         *)
(* winner_name, over account buffers held as sequences of bytes, and the   *)
(* SimpleVotingSystem codec.                                               *)
(*                                                                         *)
(* A u32 is kept as two 16-bit halves [hi, lo] (value hi * 65536 + lo), so *)
(* that the full 32-bit width, and its overflow, is represented.           *)
(***************************************************************************)
EXTENDS Integers, Sequences, FiniteSets

\* ------------------------------------------------------------------ bounds
NVoters == 2
NProps == 2
MaxListLen == 3

Voters == 0 .. (NVoters - 1)
Props == 0 .. (NProps - 1)

\* ------------------------------------------------------------------ u32
Half == 65536

U32(n) == [hi |-> 0, lo |-> n]

MaxU32 == [hi |-> Half - 1, lo |-> Half - 1]

\* u32::from_le_bytes on a 4-byte slice
u32_from_le_bytes(b) ==
  [hi |-> b[3] + 256 * b[4], lo |-> b[1] + 256 * b[2]]

\* a bug: the bytes are written most significant first
u32_to_be_bytes(n) ==
  << n.hi \div 256, n.hi % 256, n.lo \div 256, n.lo % 256 >>

\* u32::to_le_bytes
u32_to_le_bytes(n) ==
  << n.lo % 256, n.lo \div 256, n.hi % 256, n.hi \div 256 >>

\* a bug: >= where > is meant
u32_ge(a, b) == \/ a.hi > b.hi
                \/ a.hi = b.hi /\ a.lo >= b.lo

\* a > b on u32
u32_gt(a, b) == \/ a.hi > b.hi
                \/ a.hi = b.hi /\ a.lo > b.lo

\* a bug: the sum is dropped and the first operand kept
u32_add_dropped(a, b) == [sum |-> a, overflow |-> FALSE]

\* a bug: the sum saturates at u32::MAX instead of wrapping
u32_add_saturating(a, b) ==
  LET lo == a.lo + b.lo
      hi == a.hi + b.hi + (lo \div Half)
  IN  [sum |-> IF hi >= Half THEN MaxU32 ELSE [hi |-> hi, lo |-> lo % Half],
       overflow |-> hi >= Half]

\* a + b on u32: the wrapped sum and whether it overflowed
u32_add(a, b) ==
  LET lo == a.lo + b.lo
      hi == a.hi + b.hi + (lo \div Half)
  IN  [sum |-> [hi |-> hi % Half, lo |-> lo % Half], overflow |-> hi >= Half]

\* a bug: the index is truncated to its low 16 bits
u32_as_u16(n) == n.lo

\* `x as usize` used as a Vec index: a position, or beyond any list here
u32_as_usize(n) == IF n.hi > 0 THEN Half ELSE n.lo

\* ------------------------------------------------------------------ slices
\* data[a..b] panics unless b <= data.len()
slice_ok(data, a, b) == a <= b /\ b <= Len(data)

slice(data, a, b) == SubSeq(data, a + 1, b)

\* a bug: a source shorter than the destination is accepted
copy_from_slice_shorter_ok(dst, src) == Len(src) <= Len(dst)

\* dst.copy_from_slice(src) panics unless the lengths are equal
copy_from_slice_ok(dst, src) == Len(dst) = Len(src)

\* ------------------------------------------------------------------ results
Ok == [tag |-> "Ok", error |-> "", check |-> ""]

Err(error, check) == [tag |-> "Err", error |-> error, check |-> check]

Panic(check) == [tag |-> "Panic", error |-> "", check |-> check]

\* ------------------------------------------------------------------ Voter
VoterLen == 9
ProposalLen == 36
NameLen == 32
HeaderLen == 4

\* a bug: the voted flag is not read
Voter_deserialize_never_voted(data) ==
  IF ~slice_ok(data, 0, 4) \/ Len(data) < 5 \/ ~slice_ok(data, 5, 9)
  THEN [ok |-> FALSE]
  ELSE [ok |-> TRUE,
        voter |-> [weight |-> u32_from_le_bytes(slice(data, 0, 4)),
                   voted |-> FALSE,
                   vote |-> u32_from_le_bytes(slice(data, 5, 9))]]

\* a bug: the voted flag is taken to be set only when the byte is 1
Voter_deserialize_flag_is_one(data) ==
  IF ~slice_ok(data, 0, 4) \/ Len(data) < 5 \/ ~slice_ok(data, 5, 9)
  THEN [ok |-> FALSE]
  ELSE [ok |-> TRUE,
        voter |-> [weight |-> u32_from_le_bytes(slice(data, 0, 4)),
                   voted |-> data[5] = 1,
                   vote |-> u32_from_le_bytes(slice(data, 5, 9))]]

Voter_deserialize(data) ==
  IF ~slice_ok(data, 0, 4) \/ Len(data) < 5 \/ ~slice_ok(data, 5, 9)
  THEN [ok |-> FALSE]
  ELSE [ok |-> TRUE,
        voter |-> [weight |-> u32_from_le_bytes(slice(data, 0, 4)),
                   voted |-> data[5] # 0,
                   vote |-> u32_from_le_bytes(slice(data, 5, 9))]]

\* a bug: the weight is read at offset 5, where the vote is
Voter_from_bytes_weight_at_5(bytes) ==
  IF ~slice_ok(bytes, 0, 4) \/ Len(bytes) < 5 \/ ~slice_ok(bytes, 5, 9)
  THEN [ok |-> FALSE]
  ELSE [ok |-> TRUE,
        voter |-> [weight |-> u32_from_le_bytes(slice(bytes, 5, 9)),
                   voted |-> bytes[5] # 0,
                   vote |-> u32_from_le_bytes(slice(bytes, 5, 9))]]

Voter_from_bytes(bytes) ==
  IF ~slice_ok(bytes, 0, 4) \/ Len(bytes) < 5 \/ ~slice_ok(bytes, 5, 9)
  THEN [ok |-> FALSE]
  ELSE [ok |-> TRUE,
        voter |-> [weight |-> u32_from_le_bytes(slice(bytes, 0, 4)),
                   voted |-> bytes[5] # 0,
                   vote |-> u32_from_le_bytes(slice(bytes, 5, 9))]]

\* a bug: the flag is written as 0 whatever its value
bool_as_zero(b) == 0

bool_as_u8(b) == IF b THEN 1 ELSE 0

Voter_serialize(voter) ==
  u32_to_le_bytes(voter.weight) \o << bool_as_u8(voter.voted) >>
    \o u32_to_le_bytes(voter.vote)

\* a bug: the vote is written first and the weight last
Voter_to_bytes_vote_first(voter) ==
  u32_to_le_bytes(voter.vote) \o << bool_as_u8(voter.voted) >>
    \o u32_to_le_bytes(voter.weight)

Voter_to_bytes(voter) ==
  u32_to_le_bytes(voter.weight) \o << bool_as_u8(voter.voted) >>
    \o u32_to_le_bytes(voter.vote)

\* ------------------------------------------------------------------ Proposal
Proposal_from_bytes(bytes) ==
  IF ~slice_ok(bytes, 0, 32) \/ ~slice_ok(bytes, 32, 36)
  THEN [ok |-> FALSE]
  ELSE [ok |-> TRUE,
        proposal |-> [name |-> slice(bytes, 0, 32),
                      vote_count |-> u32_from_le_bytes(slice(bytes, 32, 36))]]

Proposal_to_bytes(proposal) ==
  proposal.name \o u32_to_le_bytes(proposal.vote_count)

RECURSIVE deserialize_list_from(_, _, _)
deserialize_list_from(data, offset, proposals) ==
  IF ~(offset < Len(data)) THEN [ok |-> TRUE, proposals |-> proposals]
  ELSE IF ~slice_ok(data, offset, offset + 32)
            \/ ~slice_ok(data, offset + 32, offset + 36)
       THEN [ok |-> FALSE, proposals |-> proposals]
       ELSE deserialize_list_from(
              data, offset + 36,
              Append(proposals,
                     [name |-> slice(data, offset, offset + 32),
                      vote_count |->
                        u32_from_le_bytes(slice(data, offset + 32, offset + 36))]))

Proposal_deserialize_list(data) == deserialize_list_from(data, 4, << >>)

\* ------------------------------------------------------------------ SimpleVotingSystem
KeyLen == 32
VoterChunkLen == 41

\* the first loop of to_bytes: a key and a voter record for each voter
RECURSIVE voters_to_bytes(_)
voters_to_bytes(voters) ==
  IF voters = << >> THEN << >>
  ELSE voters[1][1] \o u32_to_le_bytes(voters[1][2].weight)
         \o << bool_as_u8(voters[1][2].voted) >>
         \o u32_to_le_bytes(voters[1][2].vote)
         \o voters_to_bytes(Tail(voters))

\* the second loop of to_bytes
RECURSIVE proposals_to_bytes(_)
proposals_to_bytes(proposals) ==
  IF proposals = << >> THEN << >>
  ELSE Proposal_to_bytes(proposals[1]) \o proposals_to_bytes(Tail(proposals))

SimpleVotingSystem_to_bytes(self) ==
  self.chairperson \o voters_to_bytes(self.voters)
    \o u32_to_le_bytes(U32(Len(self.proposals)))
    \o proposals_to_bytes(self.proposals)

\* the first loop of deserialize: 41-byte chunks while offset < data.len()
RECURSIVE deserialize_voters_from(_, _, _)
deserialize_voters_from(data, offset, voters) ==
  IF ~(offset < Len(data)) THEN [ok |-> TRUE, voters |-> voters, offset |-> offset]
  ELSE IF \/ ~slice_ok(data, offset, offset + 32)
          \/ ~slice_ok(data, offset + 32, offset + 36)
          \/ ~(offset + 36 < Len(data))
          \/ ~slice_ok(data, offset + 37, offset + 41)
       THEN [ok |-> FALSE, voters |-> voters, offset |-> offset]
       ELSE deserialize_voters_from(
              data, offset + 41,
              Append(voters,
                     << slice(data, offset, offset + 32),
                        [weight |-> u32_from_le_bytes(slice(data, offset + 32, offset + 36)),
                         voted |-> data[offset + 37] # 0,
                         vote |-> u32_from_le_bytes(slice(data, offset + 37, offset + 41))] >>))

\* the second loop of deserialize: 36-byte chunks while offset < data.len()
RECURSIVE deserialize_proposals_from(_, _, _)
deserialize_proposals_from(data, offset, proposals) ==
  IF ~(offset < Len(data)) THEN [ok |-> TRUE, proposals |-> proposals]
  ELSE IF ~slice_ok(data, offset, offset + 32)
            \/ ~slice_ok(data, offset + 32, offset + 36)
       THEN [ok |-> FALSE, proposals |-> proposals]
       ELSE deserialize_proposals_from(
              data, offset + 36,
              Append(proposals,
                     [name |-> slice(data, offset, offset + 32),
                      vote_count |->
                        u32_from_le_bytes(slice(data, offset + 32, offset + 36))]))

\* ok is FALSE when a slice is out of bounds and the call aborts
SimpleVotingSystem_deserialize(data) ==
  IF ~slice_ok(data, 0, 32) THEN [ok |-> FALSE]
  ELSE
    LET voters == deserialize_voters_from(data, 32, << >>)
        proposals == deserialize_proposals_from(data, voters.offset + 4, << >>)
    IN  IF ~voters.ok \/ ~proposals.ok THEN [ok |-> FALSE]
        ELSE [ok |-> TRUE,
              system |-> [chairperson |-> slice(data, 0, 32),
                          voters |-> voters.voters,
                          proposals |-> proposals.proposals]]

\* ------------------------------------------------------------------ state
VARIABLES
  voterBuf,        \* voter account id -> the account's data (bytes)
  proposalBuf,     \* proposal account id -> the account's data (bytes)
  listBuf,         \* data of the proposal-list account (4-byte header + records)
  overflowChecks,  \* whether the build traps on integer overflow
  trusted,         \* every successful vote so far was given the buffer at its index
  call,            \* the last call: operation, the transition's result, the
                   \* caller's result, the index winner resolution computed
  codec            \* a value taken through a codec: the value, its encoding and
                   \* what the encoding decodes to

vars == << voterBuf, proposalBuf, listBuf, overflowChecks, trusted, call, codec >>

VoterAccount(v) == [kind |-> "voter", id |-> v]
ProposalAccount(p) == [kind |-> "proposal", id |-> p]
ListAccount == [kind |-> "list", id |-> 0]

\* account.data.borrow()
AccountData(account) ==
  IF account.kind = "voter" THEN voterBuf[account.id]
  ELSE IF account.kind = "proposal" THEN proposalBuf[account.id]
  ELSE listBuf

\* RefCell::borrow_mut succeeds only while no other borrow of the cell is alive
borrow_mut_ok(alive) == alive = 0

Done(res, writes) == [res |-> res, writes |-> writes, computed |-> U32(0)]

\* ------------------------------------------------------------------ transitions
give_right_to_vote(accounts, instruction_data) ==
  IF Len(accounts) < 1
  THEN Done(Err("NotEnoughAccountKeys", "next_account_info"), << >>)
  ELSE
    LET voter_account == accounts[1]
        voter_data == AccountData(voter_account)
        decoded == Voter_deserialize(voter_data)
        voter == [weight |-> U32(1), voted |-> FALSE, vote |-> U32(0)]
    IN  IF ~decoded.ok THEN Done(Panic("slice index"), << >>)
        ELSE IF decoded.voter.voted
        THEN Done(Err("InvalidAccountData", "voter.voted"), << >>)
        ELSE IF ~copy_from_slice_ok(voter_data, Voter_to_bytes(voter))
        THEN Done(Panic("copy_from_slice"), << >>)
        ELSE Done(Ok, << << voter_account, Voter_to_bytes(voter) >> >>)

vote(accounts, instruction_data) ==
  IF Len(accounts) < 2
  THEN Done(Err("NotEnoughAccountKeys", "next_account_info"), << >>)
  ELSE IF ~slice_ok(instruction_data, 1, Len(instruction_data))
            \/ Len(instruction_data) - 1 # 4
  THEN Done(Panic("try_into"), << >>)
  ELSE
    LET voter_account == accounts[1]
        proposal_account == accounts[2]
        proposal_index ==
          u32_from_le_bytes(slice(instruction_data, 1, Len(instruction_data)))
        voter_data == AccountData(voter_account)
        proposal_data == AccountData(proposal_account)
        v == Voter_from_bytes(voter_data)
        p == Proposal_from_bytes(proposal_data)
    IN  IF ~borrow_mut_ok(IF proposal_account = voter_account THEN 1 ELSE 0)
        THEN Done(Panic("BorrowMutError"), << >>)
        ELSE IF ~v.ok \/ ~p.ok THEN Done(Panic("slice index"), << >>)
        ELSE IF v.voter.weight = U32(0)
        THEN Done(Err("InvalidAccountData", "voter.weight == 0"), << >>)
        ELSE IF v.voter.voted
        THEN Done(Err("InvalidAccountData", "voter.voted"), << >>)
        ELSE
          LET added == u32_add(p.proposal.vote_count, v.voter.weight)
              voter == [weight |-> v.voter.weight, voted |-> TRUE,
                        vote |-> proposal_index]
              proposal == [name |-> p.proposal.name, vote_count |-> added.sum]
              voter_write == << voter_account, Voter_to_bytes(voter) >>
              proposal_write == << proposal_account, Proposal_to_bytes(proposal) >>
          IN  IF added.overflow /\ overflowChecks
              THEN Done(Panic("attempt to add with overflow"), << >>)
              ELSE IF ~copy_from_slice_ok(voter_data, Voter_to_bytes(voter))
              THEN Done(Panic("copy_from_slice"), << >>)
              ELSE IF ~copy_from_slice_ok(proposal_data, Proposal_to_bytes(proposal))
              THEN Done(Panic("copy_from_slice"), << voter_write >>)
              ELSE Done(Ok, << voter_write, proposal_write >>)

\* the scan of winning_proposal: (winning_proposal, winning_vote_count) after
\* visiting proposals[index ..], index counted from 0
RECURSIVE winning_scan(_, _, _, _)
winning_scan(proposals, index, winning, winning_vote_count) ==
  IF index >= Len(proposals) THEN winning
  ELSE IF u32_gt(proposals[index + 1].vote_count, winning_vote_count)
       THEN winning_scan(proposals, index + 1, U32(index),
                         proposals[index + 1].vote_count)
       ELSE winning_scan(proposals, index + 1, winning, winning_vote_count)

winning_proposal(accounts, instruction_data) ==
  IF Len(accounts) < 1
  THEN Done(Err("NotEnoughAccountKeys", "next_account_info"), << >>)
  ELSE
    LET proposal_account == accounts[1]
        proposal_data == AccountData(proposal_account)
        list == Proposal_deserialize_list(proposal_data)
        winning == winning_scan(list.proposals, 0, U32(0), U32(0))
        result_data == u32_to_le_bytes(winning)
    IN  IF ~list.ok THEN Done(Panic("slice index"), << >>)
        \* the Ref taken by borrow() for proposal_data is still alive here
        ELSE IF ~borrow_mut_ok(1)
        THEN [res |-> Panic("BorrowMutError"), writes |-> << >>,
              computed |-> winning]
        ELSE IF ~copy_from_slice_ok(proposal_data, result_data)
        THEN [res |-> Panic("copy_from_slice"), writes |-> << >>,
              computed |-> winning]
        ELSE [res |-> Ok, writes |-> << << proposal_account, result_data >> >>,
              computed |-> winning]

winner_name(accounts, instruction_data) ==
  IF Len(accounts) < 1
  THEN Done(Err("NotEnoughAccountKeys", "next_account_info"), << >>)
  ELSE
    LET proposal_account == accounts[1]
        proposal_data == AccountData(proposal_account)
        list == Proposal_deserialize_list(proposal_data)
        winning == u32_from_le_bytes(slice(proposal_data, 0, 4))
        result_data == list.proposals[u32_as_usize(winning) + 1].name
    IN  IF ~list.ok \/ ~slice_ok(proposal_data, 0, 4)
        THEN Done(Panic("slice index"), << >>)
        ELSE IF ~(u32_as_usize(winning) < Len(list.proposals))
        THEN Done(Panic("index out of bounds"), << >>)
        \* the Ref taken by borrow() for proposal_data is still alive here
        ELSE IF ~borrow_mut_ok(1)
        THEN [res |-> Panic("BorrowMutError"), writes |-> << >>,
              computed |-> winning]
        ELSE IF ~copy_from_slice_ok(proposal_data, result_data)
        THEN [res |-> Panic("copy_from_slice"), writes |-> << >>,
              computed |-> winning]
        ELSE [res |-> Ok, writes |-> << << proposal_account, result_data >> >>,
              computed |-> winning]

\* ------------------------------------------------------------------ entrypoint
NoCall == [tag |-> "NoCall", error |-> "", check |-> ""]

\* what the entrypoint returns for the result of the transition it ran
dispatch_result(result) ==
  IF result.tag = "Ok" THEN Ok
  ELSE IF result.tag = "Panic" THEN result
  ELSE IF result.error = "InvalidAccountData" THEN Ok
  ELSE Err("Custom(0)", "unknown error")

\* a bug: every opcode other than 0 runs vote
process_instruction_open(accounts, instruction_data) ==
  IF Len(instruction_data) < 1
  THEN [ret |-> Panic("index out of bounds"), res |-> NoCall, writes |-> << >>]
  ELSE IF instruction_data[1] = 0
  THEN LET result == give_right_to_vote(accounts, instruction_data)
       IN  [ret |-> dispatch_result(result.res), res |-> result.res,
            writes |-> result.writes]
  ELSE LET result == vote(accounts, instruction_data)
       IN  [ret |-> dispatch_result(result.res), res |-> result.res,
            writes |-> result.writes]

process_instruction(accounts, instruction_data) ==
  IF Len(instruction_data) < 1
  THEN [ret |-> Panic("index out of bounds"), res |-> NoCall, writes |-> << >>]
  ELSE IF instruction_data[1] = 0
  THEN LET result == give_right_to_vote(accounts, instruction_data)
       IN  [ret |-> dispatch_result(result.res), res |-> result.res,
            writes |-> result.writes]
  ELSE IF instruction_data[1] = 1
  THEN LET result == vote(accounts, instruction_data)
       IN  [ret |-> dispatch_result(result.res), res |-> result.res,
            writes |-> result.writes]
  ELSE [ret |-> Err("Custom(0)", "Invalid Instruction"), res |-> NoCall,
        writes |-> << >>]

\* ------------------------------------------------------------------ inputs
Name(b) == [i \in 1 .. NameLen |-> b]

VoterBytes(weight, votedByte, index) ==
  u32_to_le_bytes(weight) \o << votedByte >> \o u32_to_le_bytes(index)

ZeroVoter == [i \in 1 .. VoterLen |-> 0]

ZeroProposal(p) == Proposal_to_bytes([name |-> Name(65 + p), vote_count |-> U32(0)])

\* voter account data a caller can supply: records of every kind, a short and a
\* long buffer
InitVoterBufs ==
  { ZeroVoter,
    VoterBytes(U32(3), 0, U32(2)),
    VoterBytes(MaxU32, 0, U32(0)),
    VoterBytes(U32(1), 1, U32(1)),
    VoterBytes(U32(0), 2, U32(1)),
    SubSeq(VoterBytes(U32(1), 0, U32(0)), 1, VoterLen - 1),
    VoterBytes(U32(1), 0, U32(0)) \o << 0 >> }

\* a proposal whose name is shorter than 32 bytes, padded with zero bytes
PaddedName == [i \in 1 .. NameLen |-> IF i <= 3 THEN 65 ELSE 0]

PaddedProposal == Proposal_to_bytes([name |-> PaddedName, vote_count |-> U32(7)])

InitProposalBufs(p) ==
  { ZeroProposal(p),
    PaddedProposal,
    Proposal_to_bytes([name |-> Name(65 + p), vote_count |-> U32(7)]),
    Proposal_to_bytes([name |-> Name(65 + p), vote_count |-> MaxU32]),
    SubSeq(ZeroProposal(p), 1, ProposalLen - 1),
    ZeroProposal(p) \o << 0 >> }

VoteCounts == { U32(0), U32(3), U32(5) }

RECURSIVE ListBytes(_)
ListBytes(counts) ==
  IF counts = << >> THEN << >>
  ELSE ListBytes(SubSeq(counts, 1, Len(counts) - 1))
         \o Proposal_to_bytes([name |-> Name(64 + Len(counts)),
                               vote_count |-> counts[Len(counts)]])

CountLists == UNION { [1 .. n -> VoteCounts] : n \in 0 .. MaxListLen }

\* winner-index headers: within a list, at its end, and 65536
Headers == { U32(0), U32(1), U32(MaxListLen), [hi |-> 1, lo |-> 0] }

\* proposal-list account data: a header and whole records, and misaligned data
InitListBufs ==
  { u32_to_le_bytes(h) \o ListBytes(c) : h \in Headers, c \in CountLists }
    \cup { u32_to_le_bytes(U32(0)) \o ListBytes(<< U32(5) >>) \o << 0 >>,
           << 0, 0 >> }

FixedList == u32_to_le_bytes(U32(0)) \o ListBytes(<< U32(5), U32(5) >>)

GrantAccounts == { << >> } \cup { << VoterAccount(v) >> : v \in Voters }

VoteAccounts ==
  { << VoterAccount(v), ProposalAccount(p) >> : v \in Voters, p \in Props }

VoteData == { << 1 >> \o u32_to_le_bytes(U32(i)) : i \in Props }

\* calls of vote: every voter, proposal buffer and index; too few accounts; a
\* payload that is not 4 bytes
VoteInputs ==
  (VoteAccounts \X VoteData)
    \cup ({ << >>, << VoterAccount(0) >> } \X { << 1, 0, 0, 0, 0 >> })
    \cup ({ << VoterAccount(0), ProposalAccount(0) >> } \X { << 1 >>, << 1, 0 >> })

\* no opcode, and opcodes other than 0 and 1, without and with a payload
OtherData == { << >>, << 2 >>, << 255 >>, << 2, 0, 0, 0, 0 >> }

ListAccounts == { << >>, << ListAccount >> }

\* every account a caller can pass in the place of any other
AllAccounts ==
  { VoterAccount(v) : v \in Voters } \cup { ProposalAccount(p) : p \in Props }
    \cup { ListAccount }

\* ------------------------------------------------------------------ actions
Written(account, writes) == { i \in 1 .. Len(writes) : writes[i][1] = account }

Last(S) == CHOOSE i \in S : \A j \in S : j <= i

\* the account's data once the writes of a call have been applied in order
BufAfter(account, writes, old) ==
  IF Written(account, writes) = {} THEN old
  ELSE writes[Last(Written(account, writes))][2]

\* a successful vote whose proposal buffer is the one at the index it records
Matched(accounts, instruction_data) ==
  u32_from_le_bytes(slice(instruction_data, 1, 5)) = U32(accounts[2].id)

\* the data of every account once the writes of a call have been applied
BuffersAfter(writes) ==
  [voterBuf |->
     [v \in Voters |-> BufAfter(VoterAccount(v), writes, voterBuf[v])],
   proposalBuf |->
     [p \in Props |-> BufAfter(ProposalAccount(p), writes, proposalBuf[p])],
   listBuf |-> BufAfter(ListAccount, writes, listBuf)]

Apply(op, accounts, instruction_data, r, ret) ==
  /\ call' = [op |-> op, res |-> r.res, ret |-> ret, computed |-> r.computed]
  /\ IF r.writes = << >>
     THEN UNCHANGED << voterBuf, proposalBuf, listBuf >>
     ELSE LET after == BuffersAfter(r.writes)
          IN  /\ voterBuf' = after.voterBuf
              /\ proposalBuf' = after.proposalBuf
              /\ listBuf' = after.listBuf
  /\ trusted' =
       (trusted /\ (op = "CastVote" /\ r.res.tag = "Ok"
                      => Matched(accounts, instruction_data)))
  /\ UNCHANGED << overflowChecks, codec >>

Entry(op, accounts, instruction_data) ==
  LET r == process_instruction(accounts, instruction_data)
  IN  Apply(op, accounts, instruction_data,
            [res |-> r.res, writes |-> r.writes, computed |-> U32(0)], r.ret)

GrantRight == \E accounts \in GrantAccounts : Entry("GrantRight", accounts, << 0 >>)

CastVote == \E input \in VoteInputs : Entry("CastVote", input[1], input[2])

UnknownOpcode ==
  \E data \in OtherData :
    Entry("UnknownOpcode", << VoterAccount(0), ProposalAccount(0) >>, data)

Direct_winning_proposal(accounts) ==
  LET r == winning_proposal(accounts, << >>)
  IN  Apply("ResolveWinningProposal", accounts, << >>, r, r.res)

Direct_winner_name(accounts) ==
  LET r == winner_name(accounts, << >>)
  IN  Apply("ResolveWinnerName", accounts, << >>, r, r.res)

ResolveWinningProposal == \E accounts \in ListAccounts : Direct_winning_proposal(accounts)

ResolveWinnerName == \E accounts \in ListAccounts : Direct_winner_name(accounts)

Next ==
  \/ GrantRight
  \/ CastVote
  \/ UnknownOpcode
  \/ ResolveWinningProposal
  \/ ResolveWinnerName

NoCallYet == [op |-> "None", res |-> NoCall, ret |-> NoCall, computed |-> U32(0)]

NotDecoded == [ok |-> FALSE]

\* no value is being taken through a codec
NoCodec ==
  [kind |-> "None", stage |-> "none", value |-> << >>, bytes |-> << >>,
   decoded |-> NotDecoded]

VotedVoter == VoterBytes(U32(1), 1, U32(0))

\* a ballot in which voter account 0 and proposal account 0 hold data of any
\* kind; the other voters have voted
Init ==
  /\ \E data \in InitVoterBufs :
       voterBuf = [v \in Voters |-> IF v = 0 THEN data ELSE VotedVoter]
  /\ \E data \in InitProposalBufs(0) :
       proposalBuf = [p \in Props |-> IF p = 0 THEN data ELSE ZeroProposal(p)]
  /\ listBuf = FixedList
  /\ overflowChecks \in BOOLEAN
  /\ trusted = TRUE
  /\ call = NoCallYet
  /\ codec = NoCodec

Spec == Init /\ [][Next]_vars

\* a ballot before any vote: zero-initialized voters, one of them already given
\* a weight, and vote counts of 0
InitBallot ==
  /\ \E w \in { U32(0), MaxU32 } :
       voterBuf = [v \in Voters |-> IF v = 0 THEN VoterBytes(w, 0, U32(0))
                                    ELSE ZeroVoter]
  /\ proposalBuf = [p \in Props |-> ZeroProposal(p)]
  /\ listBuf = FixedList
  /\ overflowChecks \in BOOLEAN
  /\ trusted = TRUE
  /\ call = NoCallYet
  /\ codec = NoCodec

SpecBallot == InitBallot /\ [][Next]_vars

\* proposal-list buffers of every kind, and a proposal account holding data of
\* any kind, over zero-initialized voters
InitWinner ==
  /\ voterBuf = [v \in Voters |-> ZeroVoter]
  /\ \E data \in InitProposalBufs(0) :
       proposalBuf = [p \in Props |-> IF p = 0 THEN data ELSE ZeroProposal(p)]
  /\ listBuf \in InitListBufs
  /\ overflowChecks \in BOOLEAN
  /\ trusted = TRUE
  /\ call = NoCallYet
  /\ codec = NoCodec

NextWinner ==
  \/ ResolveWinningProposal
  \/ ResolveWinnerName

SpecWinner == InitWinner /\ [][NextWinner]_vars

\* proposal account data one byte longer than a record
LongProposal == ZeroProposal(0) \o << 0 >>

\* zero-initialized voters, next to a proposal account holding such data and
\* proposals with vote_count 0
InitVoters ==
  /\ voterBuf = [v \in Voters |-> ZeroVoter]
  /\ proposalBuf = [p \in Props |-> IF p = 0 THEN LongProposal ELSE ZeroProposal(p)]
  /\ listBuf = FixedList
  /\ overflowChecks \in BOOLEAN
  /\ trusted = TRUE
  /\ call = NoCallYet
  /\ codec = NoCodec

SpecVoters == InitVoters /\ [][Next]_vars

\* a fresh ballot: zero-initialized voters and proposals with vote_count 0
InitFresh ==
  /\ voterBuf = [v \in Voters |-> ZeroVoter]
  /\ proposalBuf = [p \in Props |-> ZeroProposal(p)]
  /\ listBuf = FixedList
  /\ overflowChecks \in BOOLEAN
  /\ trusted = TRUE
  /\ call = NoCallYet
  /\ codec = NoCodec

SpecFresh == InitFresh /\ [][Next]_vars

\* ------------------------------------------------------------------ codecs
\* u32 values of every byte pattern: 0, 1, one byte full, a carry into the
\* second byte, into the high half, four distinct bytes (0x01020304), u32::MAX
U32Values ==
  { U32(0), U32(1), U32(255), U32(256), [hi |-> 1, lo |-> 0],
    [hi |-> 258, lo |-> 772], MaxU32 }

VoterRecords == [weight : U32Values, voted : BOOLEAN, vote : U32Values]

Names == { Name(0), Name(65), Name(255), PaddedName, [i \in 1 .. NameLen |-> i] }

ProposalRecords == [name : Names, vote_count : U32Values]

Key(b) == [i \in 1 .. KeyLen |-> b]

\* the voters and the proposals an aggregate is made of
AggregateVoters ==
  { << Key(1), [weight |-> U32(1), voted |-> FALSE, vote |-> U32(0)] >>,
    << Key(2), [weight |-> U32(1), voted |-> TRUE, vote |-> U32(1)] >> }

AggregateProposals ==
  { [name |-> Name(65), vote_count |-> U32(0)],
    [name |-> Name(66), vote_count |-> U32(1)] }

\* the least number of proposals whose section, count included, is a whole
\* number of 41-byte voter chunks
ChunkAlignedProps ==
  CHOOSE n \in 0 .. VoterChunkLen :
    /\ (HeaderLen + ProposalLen * n) % VoterChunkLen = 0
    /\ \A k \in 0 .. (n - 1) : (HeaderLen + ProposalLen * k) % VoterChunkLen # 0

\* aggregates of up to NVoters voters and NProps proposals, and one of no
\* voter and ChunkAlignedProps proposals
Aggregates ==
  [chairperson : { Key(7) },
   voters : UNION { [1 .. n -> AggregateVoters] : n \in 0 .. NVoters },
   proposals : UNION { [1 .. n -> AggregateProposals] : n \in 0 .. NProps }]
    \cup { [chairperson |-> Key(7), voters |-> << >>,
            proposals |-> [i \in 1 .. ChunkAlignedProps |->
                             [name |-> Name(65), vote_count |-> U32(i)]]] }

CodecInput(kind, value) ==
  [kind |-> kind, stage |-> "input", value |-> value, bytes |-> << >>,
   decoded |-> NotDecoded]

CodecInputs ==
  { CodecInput("Voter.serialize", r) : r \in VoterRecords }
    \cup { CodecInput("Voter.to_bytes", r) : r \in VoterRecords }
    \cup { CodecInput("Proposal.to_bytes", r) : r \in ProposalRecords }
    \cup { CodecInput("SimpleVotingSystem.to_bytes", r) : r \in Aggregates }

\* a value about to be encoded, next to a fresh ballot
InitCodec ==
  /\ voterBuf = [v \in Voters |-> ZeroVoter]
  /\ proposalBuf = [p \in Props |-> ZeroProposal(p)]
  /\ listBuf = FixedList
  /\ overflowChecks = FALSE
  /\ trusted = TRUE
  /\ call = NoCallYet
  /\ codec \in CodecInputs

Encode(kind, bytes) ==
  /\ codec.kind = kind
  /\ codec.stage = "input"
  /\ codec' = [codec EXCEPT !.stage = "encoded", !.bytes = bytes]
  /\ UNCHANGED << voterBuf, proposalBuf, listBuf, overflowChecks, trusted, call >>

Decode(kind, decoded) ==
  /\ codec.kind = kind
  /\ codec.stage = "encoded"
  /\ codec' = [codec EXCEPT !.stage = "decoded", !.decoded = decoded]
  /\ UNCHANGED << voterBuf, proposalBuf, listBuf, overflowChecks, trusted, call >>

Call_Voter_serialize == Encode("Voter.serialize", Voter_serialize(codec.value))

Call_Voter_deserialize == Decode("Voter.serialize", Voter_deserialize(codec.bytes))

Call_Voter_to_bytes == Encode("Voter.to_bytes", Voter_to_bytes(codec.value))

Call_Voter_from_bytes == Decode("Voter.to_bytes", Voter_from_bytes(codec.bytes))

Call_Proposal_to_bytes == Encode("Proposal.to_bytes", Proposal_to_bytes(codec.value))

Call_Proposal_from_bytes == Decode("Proposal.to_bytes", Proposal_from_bytes(codec.bytes))

Call_SimpleVotingSystem_to_bytes ==
  Encode("SimpleVotingSystem.to_bytes", SimpleVotingSystem_to_bytes(codec.value))

Call_SimpleVotingSystem_deserialize ==
  Decode("SimpleVotingSystem.to_bytes", SimpleVotingSystem_deserialize(codec.bytes))

NextCodec ==
  \/ Call_Voter_serialize
  \/ Call_Voter_deserialize
  \/ Call_Voter_to_bytes
  \/ Call_Voter_from_bytes
  \/ Call_Proposal_to_bytes
  \/ Call_Proposal_from_bytes
  \/ Call_SimpleVotingSystem_to_bytes
  \/ Call_SimpleVotingSystem_deserialize

SpecCodec == InitCodec /\ [][NextCodec]_vars

\* ------------------------------------------------------------------ claims
\* The failures of the specification, as the code raises them: both are
\* ProgramError::InvalidAccountData, told apart by the check that returns it.
AlreadyVoted(res) == res = Err("InvalidAccountData", "voter.voted")

NotEnfranchised(res) == res = Err("InvalidAccountData", "voter.weight == 0")

\* Fields of a voter buffer, read from its bytes.
VotedFlag(buf) == Len(buf) >= VoterLen /\ buf[5] # 0

WeightIsZero(buf) == Len(buf) >= VoterLen /\ \A i \in 1 .. 4 : buf[i] = 0

\* Calls of vote whose other inputs decode: two accounts, a 4-byte index and a
\* proposal buffer of at least a record's length.
VoteOn(v) ==
  { input \in VoteAccounts \X VoteData :
      /\ input[1][1] = VoterAccount(v)
      /\ Len(AccountData(input[1][2])) >= ProposalLen }

BuffersUnchanged == UNCHANGED << voterBuf, proposalBuf, listBuf >>

\* a call that leaves every account's data as it is
LeavesBuffers(r) ==
  BuffersAfter(r.writes)
    = [voterBuf |-> voterBuf, proposalBuf |-> proposalBuf, listBuf |-> listBuf]

GrantCall(v) == process_instruction(<< VoterAccount(v) >>, << 0 >>)

\* C1 as stated: on a voter buffer whose voted flag is true, whatever its
\* weight and vote, GrantRight and CastVote both fail with AlreadyVoted.
C1_Original ==
  [][/\ call'.op = "GrantRight" =>
          \A v \in Voters :
            (VotedFlag(voterBuf[v])
               /\ Entry("GrantRight", << VoterAccount(v) >>, << 0 >>))
              => AlreadyVoted(call'.res)
     /\ call'.op = "CastVote" =>
          \A v \in Voters :
            VotedFlag(voterBuf[v]) =>
              \A input \in VoteOn(v) :
                Entry("CastVote", input[1], input[2]) => AlreadyVoted(call'.res)]_vars

\* C1 amended: in every state, on a voter buffer whose voted flag is true,
\* GrantRight fails with AlreadyVoted, and CastVote fails with AlreadyVoted when
\* the weight is not 0 and with NotEnfranchised when it is 0; neither call
\* succeeds or changes a buffer.
C1_Terminal ==
  \A v \in Voters :
    VotedFlag(voterBuf[v]) =>
      /\ AlreadyVoted(GrantCall(v).res)
      /\ LeavesBuffers(GrantCall(v))
      /\ \A input \in VoteOn(v) :
           /\ IF WeightIsZero(voterBuf[v])
              THEN NotEnfranchised(process_instruction(input[1], input[2]).res)
              ELSE AlreadyVoted(process_instruction(input[1], input[2]).res)
           /\ LeavesBuffers(process_instruction(input[1], input[2]))
      /\ \A input \in VoteInputs :
           (input[1] # << >> /\ input[1][1] = VoterAccount(v))
             => /\ process_instruction(input[1], input[2]).res.tag # "Ok"
                /\ LeavesBuffers(process_instruction(input[1], input[2]))

\* C1 witness: a CastVote on a voter that has voted has just failed with
\* AlreadyVoted.
C1_Witness ==
  /\ call.op = "CastVote"
  /\ AlreadyVoted(call.res)
  /\ \E v \in Voters : VotedFlag(voterBuf[v]) /\ ~WeightIsZero(voterBuf[v])

\* C2: in every state, CastVote on a voter whose weight is 0 fails with
\* NotEnfranchised, for every voted flag, index and proposal buffer, and changes
\* no buffer.
C2_EnfranchisementGate ==
  \A v \in Voters :
    WeightIsZero(voterBuf[v]) =>
      \A input \in VoteOn(v) :
        /\ NotEnfranchised(process_instruction(input[1], input[2]).res)
        /\ LeavesBuffers(process_instruction(input[1], input[2]))

\* C2 witness: a CastVote on a voter of weight 0 whose voted flag is set has
\* just failed with NotEnfranchised.
C2_Witness ==
  /\ call.op = "CastVote"
  /\ NotEnfranchised(call.res)
  /\ \E v \in Voters : WeightIsZero(voterBuf[v]) /\ VotedFlag(voterBuf[v])

\* The 16-bit halves (high, low) of the little-endian u32 at bytes [at, at + 4)
\* of a buffer, read from its bytes.
HiAt(buf, at) == buf[at + 3] + 256 * buf[at + 4]

LoAt(buf, at) == buf[at + 1] + 256 * buf[at + 2]

\* The voters marked voted whose recorded vote is the index p.
VotersFor(p) ==
  { v \in Voters : /\ VotedFlag(voterBuf[v])
                   /\ HiAt(voterBuf[v], 5) = 0
                   /\ LoAt(voterBuf[v], 5) = p }

RECURSIVE SumHi(_)
SumHi(S) ==
  IF S = {} THEN 0
  ELSE LET v == CHOOSE x \in S : TRUE
       IN  HiAt(voterBuf[v], 0) + SumHi(S \ {v})

RECURSIVE SumLo(_)
SumLo(S) ==
  IF S = {} THEN 0
  ELSE LET v == CHOOSE x \in S : TRUE
       IN  LoAt(voterBuf[v], 0) + SumLo(S \ {v})

\* The sum of the weights of the voters in S, as (high, low) halves; the high
\* half is not reduced, so that a sum of 2^32 or more is told apart.
WeightSumHi(S) == SumHi(S) + (SumLo(S) \div Half)

WeightSumLo(S) == SumLo(S) % Half

CountAtLeast(b, a) ==
  \/ HiAt(b, NameLen) > HiAt(a, NameLen)
  \/ HiAt(b, NameLen) = HiAt(a, NameLen) /\ LoAt(b, NameLen) >= LoAt(a, NameLen)

\* C4: no step decreases the stored vote_count of a proposal, whatever the
\* weight of the voter and the vote_count at the time of a CastVote.
C4_Monotonic ==
  [][\A p \in Props :
       (Len(proposalBuf[p]) >= ProposalLen /\ Len(proposalBuf'[p]) >= ProposalLen)
         => CountAtLeast(proposalBuf'[p], proposalBuf[p])]_vars

Transitions == { "GrantRight", "CastVote", "ResolveWinningProposal", "ResolveWinnerName" }

\* C5: a call of a transition that ends in a failure leaves every buffer as it
\* was before the call.
C5_FailureLeavesState ==
  [][(call'.op \in Transitions /\ call'.res.tag \in { "Err", "Panic" })
       => BuffersUnchanged]_vars

\* C6: when the transition run for opcode 0 or 1 fails with AlreadyVoted or
\* NotEnfranchised, process_instruction does not return success.
C6_FailurePropagates ==
  (/\ call.op \in { "GrantRight", "CastVote" }
   /\ AlreadyVoted(call.res) \/ NotEnfranchised(call.res))
    => call.ret.tag # "Ok"

GrantedBytes == << 1, 0, 0, 0, 0, 0, 0, 0, 0 >>

\* GrantRight applied to the voter v in the current state: its result and the
\* voter's buffer after it
GrantResult(v) == give_right_to_vote(<< VoterAccount(v) >>, << 0 >>).res

GrantBuffer(v) ==
  BufAfter(VoterAccount(v),
           give_right_to_vote(<< VoterAccount(v) >>, << 0 >>).writes, voterBuf[v])

\* C7: GrantRight on a 9-byte voter buffer with voted == false, whatever its
\* weight and vote, succeeds and leaves the bytes 01 00 00 00 00 00 00 00 00;
\* GrantRight applied again succeeds and leaves the same buffer.
C7_GrantRightReset ==
  [][\A v \in Voters :
       (/\ call'.op = "GrantRight"
        /\ Len(voterBuf[v]) = VoterLen
        /\ ~VotedFlag(voterBuf[v])
        /\ Entry("GrantRight", << VoterAccount(v) >>, << 0 >>))
         => /\ call'.res = Ok
            /\ voterBuf'[v] = GrantedBytes
            /\ GrantResult(v)' = Ok
            /\ GrantBuffer(v)' = voterBuf'[v]]_vars

\* C7 witness: GrantRight has just succeeded and a voter's buffer holds
\* 01 00 00 00 00 00 00 00 00.
C7_Witness ==
  /\ call.op = "GrantRight"
  /\ call.res = Ok
  /\ call.ret = Ok
  /\ \E v \in Voters : voterBuf[v] = GrantedBytes

\* C8: CastVote on a voter {weight w > 0, voted false}, a proposal {n, c} and an
\* index i succeeds and leaves the voter {w, true, i} and the proposal
\* {n, c + w}.
C8_CastVoteEffect ==
  [][\A v \in Voters : \A input \in IF call'.op = "CastVote" THEN VoteOn(v) ELSE {} :
       (/\ Len(voterBuf[v]) = VoterLen
        /\ ~VotedFlag(voterBuf[v])
        /\ ~WeightIsZero(voterBuf[v])
        /\ Len(AccountData(input[1][2])) = ProposalLen
        /\ Entry("CastVote", input[1], input[2]))
         => LET p == input[1][2].id
                lo == LoAt(proposalBuf[p], NameLen) + LoAt(voterBuf[v], 0)
                hi == HiAt(proposalBuf[p], NameLen) + HiAt(voterBuf[v], 0)
                        + (lo \div Half)
            IN  /\ call'.res = Ok
                /\ voterBuf'[v] =
                     SubSeq(voterBuf[v], 1, 4) \o << 1 >> \o SubSeq(input[2], 2, 5)
                /\ SubSeq(proposalBuf'[p], 1, NameLen)
                     = SubSeq(proposalBuf[p], 1, NameLen)
                /\ HiAt(proposalBuf'[p], NameLen) = hi
                /\ LoAt(proposalBuf'[p], NameLen) = lo % Half]_vars

\* A proposal-list buffer read from its bytes: a header and whole records.
Aligned(buf) ==
  Len(buf) >= HeaderLen /\ (Len(buf) - HeaderLen) % ProposalLen = 0

NumProposals(buf) == (Len(buf) - HeaderLen) \div ProposalLen

\* where the vote_count of the record of index i (from 0) starts
CountOffset(i) == HeaderLen + ProposalLen * i + NameLen

NameAt(buf, i) ==
  SubSeq(buf, HeaderLen + ProposalLen * i + 1, HeaderLen + ProposalLen * i + NameLen)

CountGreater(buf, i, j) ==
  \/ HiAt(buf, CountOffset(i)) > HiAt(buf, CountOffset(j))
  \/ /\ HiAt(buf, CountOffset(i)) = HiAt(buf, CountOffset(j))
     /\ LoAt(buf, CountOffset(i)) > LoAt(buf, CountOffset(j))

HasMaxCount(buf, i) ==
  \A j \in 0 .. (NumProposals(buf) - 1) : ~CountGreater(buf, j, i)

\* the smallest index whose vote_count is the maximum; 0 for an empty list
LeastMaxIndex(buf) ==
  IF NumProposals(buf) = 0 THEN 0
  ELSE CHOOSE i \in 0 .. (NumProposals(buf) - 1) :
         /\ HasMaxCount(buf, i)
         /\ \A j \in 0 .. (i - 1) : ~HasMaxCount(buf, j)

\* C9: the index ResolveWinningProposal computes is the smallest index whose
\* vote_count is the maximum of the list, and 0 when the list is empty or every
\* vote_count is 0.
C9_TieBreak ==
  [][(/\ call'.op = "ResolveWinningProposal"
      /\ Aligned(listBuf)
      /\ Direct_winning_proposal(<< ListAccount >>))
       => call'.computed = U32(LeastMaxIndex(listBuf))]_vars

\* C9 witness: ResolveWinningProposal has just computed index 0 on a list whose
\* vote counts are 5, 5, 3.
C9_Witness ==
  /\ call.op = "ResolveWinningProposal"
  /\ call.computed = U32(0)
  /\ Aligned(listBuf)
  /\ NumProposals(listBuf) = 3
  /\ LoAt(listBuf, CountOffset(0)) = 5
  /\ LoAt(listBuf, CountOffset(1)) = 5
  /\ LoAt(listBuf, CountOffset(2)) = 3

\* C10: on a header followed by n >= 1 proposals, ResolveWinningProposal
\* succeeds and writes the winning index into bytes [0, 4), the proposals still
\* starting at byte 4; ResolveWinnerName run after it succeeds and publishes the
\* name of the proposal with the highest vote_count.
C10_Protocol ==
  [][/\ (/\ call'.op = "ResolveWinningProposal"
         /\ Aligned(listBuf)
         /\ NumProposals(listBuf) >= 1
         /\ Direct_winning_proposal(<< ListAccount >>))
          => /\ call'.res = Ok
             /\ listBuf' = << LeastMaxIndex(listBuf), 0, 0, 0 >>
                             \o SubSeq(listBuf, HeaderLen + 1, Len(listBuf))
     /\ (/\ call.op = "ResolveWinningProposal"
         /\ call.res = Ok
         /\ call'.op = "ResolveWinnerName"
         /\ Direct_winner_name(<< ListAccount >>))
          => /\ call'.res = Ok
             /\ SubSeq(listBuf', 1, NameLen)
                  = NameAt(listBuf, LeastMaxIndex(listBuf))]_vars

\* every proposal record is as it was once the writes of a call are applied:
\* the proposal accounts that hold a record, and the records of the list
RecordsKept(writes) ==
  /\ \A p \in Props :
       Len(proposalBuf[p]) >= ProposalLen
         => BuffersAfter(writes).proposalBuf[p] = proposalBuf[p]
  /\ Len(listBuf) >= HeaderLen
       => /\ Len(BuffersAfter(writes).listBuf) = Len(listBuf)
          /\ SubSeq(BuffersAfter(writes).listBuf, HeaderLen + 1, Len(listBuf))
               = SubSeq(listBuf, HeaderLen + 1, Len(listBuf))

\* C11: in every state, GrantRight, ResolveWinningProposal and
\* ResolveWinnerName, called on any account (a voter, a proposal or the
\* proposal list), leave the name and vote_count of every proposal record
\* unchanged.
C11_ProposalFrame ==
  \A account \in AllAccounts :
    /\ RecordsKept(give_right_to_vote(<< account >>, << 0 >>).writes)
    /\ RecordsKept(winning_proposal(<< account >>, << >>).writes)
    /\ RecordsKept(winner_name(<< account >>, << >>).writes)

\* C11 witness: ResolveWinnerName has just run on a list of at least one
\* proposal whose header is a valid index, next to a proposal account whose
\* name is zero-padded.
C11_Witness ==
  /\ call.op = "ResolveWinnerName"
  /\ call.res.tag # "Err"
  /\ Aligned(listBuf)
  /\ NumProposals(listBuf) >= 1
  /\ LoAt(listBuf, 0) < NumProposals(listBuf)
  /\ proposalBuf[0] = PaddedProposal

\* The failure of the specification, as the code raises it: the abort of the
\* indexing proposals[winning_proposal as usize].
IndexOutOfRange(res) == res = Panic("index out of bounds")

\* the index in bytes [0, 4) of the list is not below its number of proposals
HeaderOutOfRange(buf) ==
  HiAt(buf, 0) > 0 \/ LoAt(buf, 0) >= NumProposals(buf)

\* C12: in every state, on a list buffer of a header and whole records whose
\* header index is not below the number of proposals (none included),
\* ResolveWinnerName fails with IndexOutOfRange and writes nothing.
C12_IndexOutOfRange ==
  (Aligned(listBuf) /\ HeaderOutOfRange(listBuf))
    => /\ IndexOutOfRange(winner_name(<< ListAccount >>, << >>).res)
       /\ winner_name(<< ListAccount >>, << >>).writes = << >>

\* C12 witness: ResolveWinnerName has just failed with IndexOutOfRange on a
\* list of two proposals whose header holds the index 65536.
C12_Witness ==
  /\ call.op = "ResolveWinnerName"
  /\ IndexOutOfRange(call.res)
  /\ Aligned(listBuf)
  /\ NumProposals(listBuf) = 2
  /\ HiAt(listBuf, 0) = 1

\* The failure of the specification for a buffer that does not decode: an
\* error the call returns.
MalformedRecord(res) == res.tag = "Err"

\* C13: decoding a proposal-list buffer whose length after the 4-byte header is
\* not a multiple of 36 fails with MalformedRecord as a returned error, in
\* ResolveWinningProposal and in ResolveWinnerName; it does not abort.
C13_MisalignedRejected ==
  [][(/\ Len(listBuf) >= HeaderLen
      /\ ~Aligned(listBuf)
      /\ \/ Direct_winning_proposal(<< ListAccount >>)
         \/ Direct_winner_name(<< ListAccount >>))
       => MalformedRecord(call'.res)]_vars

\* C14: a VoterRecord is encoded in exactly 9 bytes and a ProposalRecord in
\* exactly 36, and decoding the encoding returns the record that was encoded,
\* for Voter::serialize / deserialize, Voter::to_bytes / from_bytes and
\* Proposal::to_bytes / from_bytes.
C14_RoundTrip ==
  /\ (codec.kind \in { "Voter.serialize", "Voter.to_bytes" }
        /\ codec.stage \in { "encoded", "decoded" })
       => Len(codec.bytes) = VoterLen
  /\ (codec.kind = "Proposal.to_bytes" /\ codec.stage \in { "encoded", "decoded" })
       => Len(codec.bytes) = ProposalLen
  /\ (codec.kind \in { "Voter.serialize", "Voter.to_bytes" }
        /\ codec.stage = "decoded")
       => codec.decoded = [ok |-> TRUE, voter |-> codec.value]
  /\ (codec.kind = "Proposal.to_bytes" /\ codec.stage = "decoded")
       => codec.decoded = [ok |-> TRUE, proposal |-> codec.value]

\* C14 witness: the voter {weight 0x01020304, voted true, vote 2^32 - 1} has
\* been encoded and decoded.
C14_Witness ==
  /\ codec.kind = "Voter.to_bytes"
  /\ codec.stage = "decoded"
  /\ codec.value = [weight |-> [hi |-> 258, lo |-> 772], voted |-> TRUE,
                    vote |-> MaxU32]
  /\ codec.bytes = << 4, 3, 2, 1, 1, 255, 255, 255, 255 >>

\* C15: decoding the encoding of a Ballot Aggregate returns the same
\* chairperson, the same voters and the same proposals.
C15_AggregateRoundTrip ==
  (codec.kind = "SimpleVotingSystem.to_bytes" /\ codec.stage = "decoded")
    => codec.decoded = [ok |-> TRUE, system |-> codec.value]

\* C16: in every state and for every list of accounts, the entrypoint runs
\* give_right_to_vote for opcode 0 and vote for opcode 1, and for every other
\* first byte it runs no transition, returns a failure and writes no buffer.
C16_ClosedOpcodes ==
  \A accounts \in GrantAccounts \cup VoteAccounts :
    /\ \A data \in OtherData :
         Len(data) >= 1
           => /\ process_instruction(accounts, data).ret.tag = "Err"
              /\ process_instruction(accounts, data).res = NoCall
              /\ process_instruction(accounts, data).writes = << >>
    /\ process_instruction(accounts, << 0 >>).res
         = give_right_to_vote(accounts, << 0 >>).res
    /\ process_instruction(accounts, << 0 >>).writes
         = give_right_to_vote(accounts, << 0 >>).writes
    /\ \A data \in VoteData :
         /\ process_instruction(accounts, data).res = vote(accounts, data).res
         /\ process_instruction(accounts, data).writes = vote(accounts, data).writes

\* C16 witness: a call with an opcode other than 0 and 1 has just returned the
\* failure Custom(0), on a voter that has a weight and has not voted.
C16_Witness ==
  /\ call.op = "UnknownOpcode"
  /\ call.ret = Err("Custom(0)", "Invalid Instruction")
  /\ call.res = NoCall
  /\ ~VotedFlag(voterBuf[0])
  /\ ~WeightIsZero(voterBuf[0])

\* C17: a CastVote call, on a voter buffer and a proposal buffer of any length,
\* writes both buffers or neither: a step of CastVote changes a voter buffer
\* exactly when it changes a proposal buffer.
C17_CastVoteAtomic ==
  [][call'.op = "CastVote"
       => (voterBuf' # voterBuf <=> proposalBuf' # proposalBuf)]_vars

\* The stage of a voter, read from the bytes of its buffer.
VoterStage(buf) ==
  IF VotedFlag(buf) THEN "Voted"
  ELSE IF WeightIsZero(buf) THEN "NotEnfranchised"
  ELSE "Enfranchised"

LifecycleMoves ==
  { << "NotEnfranchised", "NotEnfranchised" >>,
    << "NotEnfranchised", "Enfranchised" >>,
    << "Enfranchised", "Enfranchised" >>,
    << "Enfranchised", "Voted" >>,
    << "Voted", "Voted" >> }

\* C18: from zero-initialized voter buffers, every step takes each voter along
\* NotEnfranchised -> Enfranchised -> Voted or leaves its stage; an enfranchised
\* voter that has not voted holds {weight 1, voted false, vote 0}; and once the
\* voted flag is set the buffer (flag, vote and weight) never changes.
C18_Lifecycle ==
  [][\A v \in Voters :
       /\ << VoterStage(voterBuf[v]), VoterStage(voterBuf'[v]) >> \in LifecycleMoves
       /\ VoterStage(voterBuf'[v]) = "Enfranchised" => voterBuf'[v] = GrantedBytes
       /\ VotedFlag(voterBuf[v]) => voterBuf'[v] = voterBuf[v]]_vars

\* C18 witness: a voter has voted for the index 1, and GrantRight on a voter
\* that has voted has just failed with AlreadyVoted.
C18_Witness ==
  /\ call.op = "GrantRight"
  /\ AlreadyVoted(call.res)
  /\ \E v \in Voters : voterBuf[v] = << 1, 0, 0, 0, 1, 1, 0, 0, 0 >>

\* The vote_count of the proposal account p, below 65536, read from its bytes.
CountOf(buf) == LoAt(buf, NameLen)

RECURSIVE SumCounts(_)
SumCounts(S) ==
  IF S = {} THEN 0
  ELSE LET p == CHOOSE x \in S : TRUE
       IN  CountOf(proposalBuf[p]) + SumCounts(S \ {p})

VotedVoters == { v \in Voters : VotedFlag(voterBuf[v]) }

\* the vote counts add up to the number of voters marked voted
CountsMatchVoted ==
  /\ \A p \in Props : HiAt(proposalBuf[p], NameLen) = 0
  /\ SumCounts(Props) = Cardinality(VotedVoters)

\* a step that marks a voter voted adds 1 to one proposal and leaves the
\* others; any other step leaves every proposal
VoteAddsOnce ==
  IF VotedVoters' = VotedVoters THEN proposalBuf' = proposalBuf
  ELSE /\ Cardinality(VotedVoters' \ VotedVoters) = 1
       /\ VotedVoters \subseteq VotedVoters'
       /\ \E p \in Props :
            /\ CountOf(proposalBuf'[p]) = CountOf(proposalBuf[p]) + 1
            /\ \A q \in Props \ {p} : proposalBuf'[q] = proposalBuf[q]

C20_WeightBound ==
  \A v \in Voters :
    /\ Len(voterBuf[v]) = VoterLen
    /\ HiAt(voterBuf[v], 0) = 0
    /\ LoAt(voterBuf[v], 0) \in { 0, 1 }
    /\ VotedFlag(voterBuf[v]) => LoAt(voterBuf[v], 0) = 1
    /\ LoAt(voterBuf[v], 0) = 0 => voterBuf[v] = ZeroVoter

\* C20 witness: one voter has voted for the index 1 with weight 1, and another
\* is still zero-initialized.
C20_Witness ==
  /\ call.op = "CastVote"
  /\ \E v \in Voters : voterBuf[v] = << 1, 0, 0, 0, 1, 1, 0, 0, 0 >>
  /\ \E v \in Voters : voterBuf[v] = ZeroVoter

====
